---------------------------- MODULE Spec2Model ----------------------------
(***************************************************************************)
(* Family-tree visualizer: the auto-align layout of the family-tree page   *)
(* (client/src/hooks/use-family-tree.ts, handleAutoAlign) and the render   *)
(* pass of the canvas (client/src/components/family-tree-canvas.tsx).      *)
(*                                                                         *)
(* Coordinates are JavaScript numbers.  Every value the layout computes is *)
(* a dyadic rational (sums, maxima and halvings of multiples of 8), which  *)
(* a double holds exactly, so the model keeps coordinates as integers in   *)
(* units of 1/Scale pixel and records in `exact` whether every halving was *)
(* exact at that resolution.                                               *)
(***************************************************************************)
EXTENDS Integers, Sequences, FiniteSets, TLC

VARIABLES
    members,          \* familyTree.members: sequence of [id, x, y]
    relationships,    \* familyTree.relationships: sequence of [fromMemberId, toMemberId, type, status]
    isAutoAligning,   \* React state isAutoAligning
    pc,               \* where handleAutoAlign stands: "idle" | "awaiting"
    memberPositions,  \* the Position Map of the latest run (local memberPositions)
    nextX,            \* the horizontal cursor of the latest run (local nextX)
    calls,            \* the layoutUnit invocations of the latest run, in order of return
    threw,            \* the latest run ended in the catch block
    exact,            \* every halving of the latest run was exact at 1/Scale pixel
    pending,          \* position writes dispatched and not yet answered: [run, id, x, y]
    writeFailed,      \* a position write of the latest run was rejected
    runs,             \* number of runs started
    prevPositions,    \* the Position Map of the run before the latest one
    drawn,            \* what the latest render pass appended to the svg, in order
    rendered,         \* a render pass has run on this snapshot
    lost,             \* position writes that were not stored: [run, id, x, y]
    reports,          \* what the page has reported, in order: [channel, run]
    memberGenerations, \* generation assignment: member id -> generation
    generations,      \* generation assignment: generation -> the members it holds
    stats,            \* what the sidebar's latest calculateStats computed
    currentMemberId,  \* storage: the next member id (serial)
    currentRelationshipId, \* storage: the next relationship id (serial)
    lastOp            \* storage: the latest call and its outcome: [op, id, error]

\* What auto-align leaves behind besides positions
netVars == <<lost, reports>>

\* The result of generation assignment
genVars == <<memberGenerations, generations, stats>>

\* The storage's counters and the outcome of its latest call
storageVars == <<currentMemberId, currentRelationshipId, lastOp>>

vars == <<members, relationships, isAutoAligning, pc, memberPositions, nextX,
          calls, threw, exact, pending, writeFailed, runs, prevPositions, drawn,
          rendered, netVars, genVars, storageVars>>

---------------------------------------------------------------------------
(* Bounds of the model *)

MaxMembers == 3
MaxRels == 2
MaxRuns == 2
SubPixelBits == 4

Scale == 2 ^ SubPixelBits

(* Layout constants, in pixels *)
CARD_WIDTH == 256
CARD_HEIGHT == 128
X_SPACING == 40
Y_SPACING == 80


---------------------------------------------------------------------------
(* Helpers on sequences and sets *)

Range(s) == { s[i] : i \in DOMAIN s }

Contains(s, e) == \E i \in DOMAIN s : s[i] = e

Min(S) == CHOOSE v \in S : \A w \in S : v <= w
Max(S) == CHOOSE v \in S : \A w \in S : v >= w

\* Array.prototype.sort((a, b) => a - b) over a set of distinct numbers
RECURSIVE SortAsc(_)
SortAsc(S) == IF S = {} THEN <<>> ELSE <<Min(S)>> \o SortAsc(S \ {Min(S)})

\* Array.from(new Set(list)): first occurrences, in order
RECURSIVE Dedup(_)
Dedup(s) ==
    IF s = <<>> THEN <<>>
    ELSE LET r == Dedup(SubSeq(s, 1, Len(s) - 1))
             e == s[Len(s)]
         IN  IF Contains(r, e) THEN r ELSE Append(r, e)

RECURSIVE Flatten(_)
Flatten(ss) == IF ss = <<>> THEN <<>> ELSE Head(ss) \o Flatten(Tail(ss))

MemberIds(ms) == { ms[i].id : i \in DOMAIN ms }

---------------------------------------------------------------------------
(* Graph index: lines 200-217 *)

EmptyIndex(ms) ==
    [ threw       |-> FALSE,
      childrenMap |-> [id \in MemberIds(ms) |-> <<>>],
      parentsMap  |-> [id \in MemberIds(ms) |-> <<>>],
      spousesMap  |-> [id \in MemberIds(ms) |-> <<>>] ]

\* Mutant of IndexRel: a spouse record is entered for its first member only
IndexRelOneWay(idx, rel) ==
    LET known == DOMAIN idx.childrenMap
    IN
    IF idx.threw THEN idx
    ELSE IF rel.type = "parent-child" THEN
        IF rel.fromMemberId \notin known \/ rel.toMemberId \notin known
        THEN [idx EXCEPT !.threw = TRUE]
        ELSE [idx EXCEPT
                !.childrenMap[rel.fromMemberId] = Append(@, rel.toMemberId),
                !.parentsMap[rel.toMemberId] = Append(@, rel.fromMemberId)]
    ELSE IF rel.type = "spouse" THEN
        IF rel.fromMemberId \notin known \/ rel.toMemberId \notin known
        THEN [idx EXCEPT !.threw = TRUE]
        ELSE [idx EXCEPT !.spousesMap[rel.fromMemberId] = Append(@, rel.toMemberId)]
    ELSE idx

\* One iteration of relationships.forEach: pushing onto the entry of an id
\* that is not a member is a push on undefined, a TypeError.
IndexRel(idx, rel) ==
    LET known == DOMAIN idx.childrenMap
    IN
    IF idx.threw THEN idx
    ELSE IF rel.type = "parent-child" THEN
        IF rel.fromMemberId \notin known \/ rel.toMemberId \notin known
        THEN [idx EXCEPT !.threw = TRUE]
        ELSE [idx EXCEPT
                !.childrenMap[rel.fromMemberId] = Append(@, rel.toMemberId),
                !.parentsMap[rel.toMemberId] = Append(@, rel.fromMemberId)]
    ELSE IF rel.type = "spouse" THEN
        IF rel.fromMemberId \notin known \/ rel.toMemberId \notin known
        THEN [idx EXCEPT !.threw = TRUE]
        ELSE LET a == [idx EXCEPT !.spousesMap[rel.fromMemberId] = Append(@, rel.toMemberId)]
             IN  [a EXCEPT !.spousesMap[rel.toMemberId] = Append(@, rel.fromMemberId)]
    ELSE idx

RECURSIVE IndexRels(_, _, _)
IndexRels(idx, rels, i) ==
    IF i > Len(rels) THEN idx ELSE IndexRels(IndexRel(idx, rels[i]), rels, i + 1)

BuildIndex(ms, rels) == IndexRels(EmptyIndex(ms), rels, 1)

\* roots = members.filter(m => parentsMap[m.id].length === 0), as ids
Roots(ms, idx) ==
    LET ids == [i \in DOMAIN ms |-> ms[i].id]
        IsRoot(id) == idx.parentsMap[id] = <<>>
    IN  SelectSeq(ids, IsRoot)

---------------------------------------------------------------------------
(* getSpouseGroup: lines 276-285 *)

RECURSIVE dfs(_, _, _)
dfs(idx, id, group) ==
    IF id \in group THEN group
    ELSE LET sp == idx.spousesMap[id]
             F[i \in 0 .. Len(sp)] ==
                 IF i = 0 THEN group \cup {id} ELSE dfs(idx, sp[i], F[i - 1])
         IN  F[Len(sp)]

getSpouseGroup(idx, memberId) == SortAsc(dfs(idx, memberId, {}))

---------------------------------------------------------------------------
(* layoutUnit: lines 229-274 *)

\* Mutant of Children: a child of any member of the group qualifies
ChildrenOfSome(idx, parents) ==
    Dedup(Flatten([i \in DOMAIN parents |-> idx.childrenMap[parents[i]]]))

\* the children of a parent group: lines 231-240
Children(idx, parents) ==
    IF Len(parents) = 1 THEN idx.childrenMap[parents[1]]
    ELSE IF Len(parents) > 1 THEN
        LET all == Dedup(Flatten([i \in DOMAIN parents |-> idx.childrenMap[parents[i]]]))
            Every(cid) == \A i \in DOMAIN parents : Contains(idx.childrenMap[parents[i]], cid)
        IN  SelectSeq(all, Every)
    ELSE <<>>

UnitWidth(parents) == Len(parents) * CARD_WIDTH + (Len(parents) - 1) * X_SPACING

\* x of the first card of a group with children: line 254 (in 1/Scale pixel)
CenteredX(childXs, parents) ==
    (Min(Range(childXs)) + Max(Range(childXs)) - UnitWidth(parents) * Scale) \div 2
        + (CARD_WIDTH * Scale) \div 2

\* Mutant of AdvanceNextX: the cursor is set past the children, whatever it was
AdvanceNextXPastChildren(cur, childXs, x, parents) ==
    IF Len(childXs) > 0
    THEN Max(Range(childXs)) + (CARD_WIDTH + X_SPACING) * Scale
    ELSE x + (UnitWidth(parents) + X_SPACING) * Scale

\* nextX after the group has been positioned: lines 265-269
AdvanceNextX(cur, childXs, x, parents) ==
    IF Len(childXs) > 0
    THEN Max({cur, Max(Range(childXs)) + (CARD_WIDTH + X_SPACING) * Scale})
    ELSE x + (UnitWidth(parents) + X_SPACING) * Scale

\* Mutant of PlaceParents: the cards of a group are one card width apart
PlaceParentsNoGap(pos, parents, x, depth) ==
    [id \in DOMAIN pos \cup Range(parents) |->
        IF id \in Range(parents)
        THEN LET i == CHOOSE j \in DOMAIN parents : parents[j] = id
             IN  [x |-> x + (i - 1) * CARD_WIDTH * Scale,
                  y |-> depth * (CARD_HEIGHT + Y_SPACING) * Scale]
        ELSE pos[id]]

\* lines 258-263
PlaceParents(pos, parents, x, depth) ==
    [id \in DOMAIN pos \cup Range(parents) |->
        IF id \in Range(parents)
        THEN LET i == CHOOSE j \in DOMAIN parents : parents[j] = id
             IN  [x |-> x + (i - 1) * (CARD_WIDTH + X_SPACING) * Scale,
                  y |-> depth * (CARD_HEIGHT + Y_SPACING) * Scale]
        ELSE pos[id]]

\* lines 271-273
UnitCenter(pos, parents) ==
    IF Len(parents) = 1 THEN pos[parents[1]].x
    ELSE (pos[parents[1]].x + pos[parents[Len(parents)]].x) \div 2

\* The call stack of the engine is finite.  A recursion deeper than the
\* number of members has a spouse cluster twice on the stack, and since an
\* invocation's callees depend only on its cluster it then never returns:
\* the engine throws RangeError once the stack is exhausted.
StackLimit(idx) == Cardinality(DOMAIN idx.childrenMap) + 1

\* The layout state threaded through the recursion: the closure variables
\* memberPositions and nextX, the invocation log, whether RangeError was
\* thrown, whether every halving was exact.
RECURSIVE layoutUnit(_, _, _, _)
layoutUnit(idx, parents, depth, st) ==
    IF st.threw THEN [st |-> st, ret |-> 0]
    ELSE IF depth > StackLimit(idx) THEN [st |-> [st EXCEPT !.threw = TRUE], ret |-> 0]
    ELSE
    LET children == Children(idx, parents)
        \* children.forEach(childId => childXs.push(layoutUnit(getSpouseGroup(childId), depth + 1)))
        K[i \in 0 .. Len(children)] ==
            IF i = 0 THEN [st |-> st, childXs |-> <<>>]
            ELSE LET before == K[i - 1]
                     r == layoutUnit(idx, getSpouseGroup(idx, children[i]), depth + 1, before.st)
                 IN  [st |-> r.st, childXs |-> Append(before.childXs, r.ret)]
        kids == K[Len(children)]
        s1 == kids.st
        childXs == kids.childXs
    IN
    IF s1.threw THEN [st |-> s1, ret |-> 0]
    ELSE
    LET x == IF Len(childXs) > 0 THEN CenteredX(childXs, parents) ELSE s1.nextX
        pos2 == PlaceParents(s1.pos, parents, x, depth)
        nx == AdvanceNextX(s1.nextX, childXs, x, parents)
        ok == /\ Len(childXs) > 0 =>
                    (Min(Range(childXs)) + Max(Range(childXs)) - UnitWidth(parents) * Scale) % 2 = 0
              /\ Len(parents) > 1 =>
                    (pos2[parents[1]].x + pos2[parents[Len(parents)]].x) % 2 = 0
        call == [parents |-> parents, depth |-> depth, children |-> children,
                 childXs |-> childXs, x |-> x, nextXBefore |-> s1.nextX, nextXAfter |-> nx]
    IN  [st  |-> [pos |-> pos2, nextX |-> nx, calls |-> Append(s1.calls, call),
                  threw |-> FALSE, exact |-> s1.exact /\ ok],
         ret |-> UnitCenter(pos2, parents)]

\* roots.forEach: lines 288-293
LayoutRoots(idx, roots, st0) ==
    LET R[i \in 0 .. Len(roots)] ==
            IF i = 0 THEN st0
            ELSE LET s == R[i - 1]
                     group == getSpouseGroup(idx, roots[i])
                 IN  IF s.threw THEN s
                     ELSE IF \E j \in DOMAIN group : group[j] \in DOMAIN s.pos THEN s
                     ELSE layoutUnit(idx, group, 0, s).st
    IN  R[Len(roots)]

\* Mutant of InitialLayout: the cursor starts right of the stored cards
InitialLayoutAfterStored ==
    [pos |-> <<>>,
     nextX |-> Max({0} \cup { members[i].x : i \in DOMAIN members }),
     calls |-> <<>>, threw |-> FALSE, exact |-> TRUE]

\* memberPositions = {} and nextX = 0: lines 221 and 228
InitialLayout ==
    [pos |-> <<>>, nextX |-> 0, calls |-> <<>>, threw |-> FALSE, exact |-> TRUE]

\* The synchronous computation of a run: lines 197-293
ComputeLayout(ms, rels) ==
    LET idx == BuildIndex(ms, rels)
    IN  IF idx.threw THEN [InitialLayout EXCEPT !.threw = TRUE]
        ELSE LayoutRoots(idx, Roots(ms, idx), InitialLayout)

---------------------------------------------------------------------------
(* The auto-align handler: lines 193-321 *)

PositionOf(ms, id) ==
    LET i == CHOOSE j \in DOMAIN ms : ms[j].id = id
    IN  [x |-> ms[i].x, y |-> ms[i].y]

\* The PATCH requests a run dispatches, one per entry of memberPositions:
\* lines 295-301
Requests(run, pos) ==
    { [run |-> run, id |-> id, x |-> pos[id].x, y |-> pos[id].y] : id \in DOMAIN pos }

\* Mutant of AutoAlignCompute: the positions computed before a throw are
\* written
AutoAlignComputeFlushing ==
    /\ pc = "idle"
    /\ ~isAutoAligning
    /\ runs < MaxRuns
    /\ LET r == ComputeLayout(members, relationships)
       IN  /\ memberPositions' = r.pos
           /\ nextX' = r.nextX
           /\ calls' = r.calls
           /\ threw' = r.threw
           /\ exact' = r.exact
           /\ IF r.threw
              THEN /\ pc' = "idle"
                   /\ isAutoAligning' = FALSE
                   /\ pending' = pending \cup Requests(runs + 1, r.pos)
              ELSE /\ pc' = "awaiting"
                   /\ isAutoAligning' = TRUE
                   /\ pending' = pending \cup Requests(runs + 1, r.pos)
    /\ runs' = runs + 1
    /\ writeFailed' = FALSE
    /\ prevPositions' = memberPositions
    /\ reports' = IF ComputeLayout(members, relationships).threw
                  THEN Append(reports, [channel |-> "console", run |-> runs + 1])
                  ELSE reports
    /\ UNCHANGED <<members, relationships, drawn, rendered, lost, genVars, storageVars>>

\* Lines 194-301, and 316-320 when the computation throws: the handler runs
\* without yielding from the guard to the first await.  A throw skips the
\* dispatch of the writes and reaches catch and finally in the same turn.
\* The button that calls the handler is disabled while isAutoAligning.
AutoAlignCompute ==
    /\ pc = "idle"
    /\ ~isAutoAligning
    /\ runs < MaxRuns
    /\ LET r == ComputeLayout(members, relationships)
       IN  /\ memberPositions' = r.pos
           /\ nextX' = r.nextX
           /\ calls' = r.calls
           /\ threw' = r.threw
           /\ exact' = r.exact
           /\ IF r.threw
              THEN /\ pc' = "idle"
                   /\ isAutoAligning' = FALSE
                   /\ pending' = pending
              ELSE /\ pc' = "awaiting"
                   /\ isAutoAligning' = TRUE
                   /\ pending' = pending \cup Requests(runs + 1, r.pos)
    /\ runs' = runs + 1
    /\ writeFailed' = FALSE
    /\ prevPositions' = memberPositions
    /\ reports' = IF ComputeLayout(members, relationships).threw
                  THEN Append(reports, [channel |-> "console", run |-> runs + 1])
                  ELSE reports
    /\ UNCHANGED <<members, relationships, drawn, rendered, lost, genVars, storageVars>>

\* The server answers one PATCH /api/family-members/:id/position:
\* updateFamilyMemberPosition stores the position of the member.
PositionWrite(req) ==
    /\ req \in pending
    /\ pending' = pending \ {req}
    /\ members' = [i \in DOMAIN members |->
                      IF members[i].id = req.id
                      THEN [members[i] EXCEPT !.x = req.x, !.y = req.y]
                      ELSE members[i]]
    /\ UNCHANGED <<relationships, isAutoAligning, pc, memberPositions, nextX, calls,
                   threw, exact, runs, writeFailed, prevPositions, drawn, rendered,
                   netVars, genVars, storageVars>>

\* Mutant of PositionWriteFails: the rejection skips the finally block
PositionWriteFailsNoFinally(req) ==
    /\ req \in pending
    /\ pending' = pending \ {req}
    /\ lost' = lost \cup {req}
    /\ IF pc = "awaiting" /\ req.run = runs
       THEN /\ pc' = "idle"
            /\ isAutoAligning' = isAutoAligning
            /\ writeFailed' = TRUE
            /\ reports' = Append(reports, [channel |-> "console", run |-> req.run])
       ELSE UNCHANGED <<pc, isAutoAligning, writeFailed, reports>>
    /\ UNCHANGED <<members, relationships, memberPositions, nextX, calls, threw, exact,
                   runs, prevPositions, drawn, rendered, genVars, storageVars>>

\* One PATCH does not reach the server and its fetch rejects.  The first
\* rejection of a run rejects Promise.all, and the handler goes through catch
\* and finally (lines 316-320) while the run's other requests stay in flight.
PositionWriteFails(req) ==
    /\ req \in pending
    /\ pending' = pending \ {req}
    /\ lost' = lost \cup {req}
    /\ IF pc = "awaiting" /\ req.run = runs
       THEN /\ pc' = "idle"
            /\ isAutoAligning' = FALSE
            /\ writeFailed' = TRUE
            /\ reports' = Append(reports, [channel |-> "console", run |-> req.run])
       ELSE UNCHANGED <<pc, isAutoAligning, writeFailed, reports>>
    /\ UNCHANGED <<members, relationships, memberPositions, nextX, calls, threw, exact,
                   runs, prevPositions, drawn, rendered, genVars, storageVars>>

\* The server answers one PATCH with status 404: updateFamilyMemberPosition
\* threw (routes, lines 33-47).  The fetch resolves all the same, and the
\* handler does not look at the response (lines 295-302).
PositionWriteNotFound(req) ==
    /\ req \in pending
    /\ pending' = pending \ {req}
    /\ lost' = lost \cup {req}
    /\ UNCHANGED <<members, relationships, isAutoAligning, pc, memberPositions, nextX,
                   calls, threw, exact, runs, writeFailed, prevPositions, drawn,
                   rendered, reports, genVars, storageVars>>

\* Promise.all resolves once every write of the run is answered: lines 302-320
AutoAlignResume ==
    /\ pc = "awaiting"
    /\ \A req \in pending : req.run # runs
    /\ pc' = "idle"
    /\ isAutoAligning' = FALSE
    /\ UNCHANGED <<members, relationships, memberPositions, nextX, calls, threw, exact,
                   pending, runs, writeFailed, prevPositions, drawn, rendered,
                   netVars, genVars, storageVars>>

---------------------------------------------------------------------------
(* Generation assignment.  The earlier handleAutoAlign of the family-tree  *)
(* page lays members out by generation: its lines 43-126.  Its parent      *)
(* records have type "parent".                                             *)

\* Math.max() of no numbers.  -Infinity is below every number, and stays
\* -Infinity when 1 is added.
NegInfinity == -1

PlusOne(g) == IF g = NegInfinity THEN NegInfinity ELSE g + 1

\* obj[k] = v on an object used as a dictionary
Put(f, k, v) == [x \in DOMAIN f \cup {k} |-> IF x = k THEN v ELSE f[x]]

\* lines 54-62, as ids
RootMembers(ms, rels, parentType) ==
    LET hasParent == { rels[i].toMemberId : i \in { j \in DOMAIN rels : rels[j].type = parentType } }
        ids == [i \in DOMAIN ms |-> ms[i].id]
        NoParent(id) == id \notin hasParent
    IN  SelectSeq(ids, NoParent)

\* Mutant of assignGeneration: a member met again takes the later generation
RECURSIVE assignGenerationRevisit(_, _, _, _, _)
assignGenerationRevisit(ms, rels, memberId, generation, st) ==
    IF memberId \in st.visited
    THEN [st EXCEPT !.memberGenerations = Put(@, memberId, generation)]
    ELSE
        LET list == IF generation \in DOMAIN st.generations
                    THEN st.generations[generation] ELSE <<>>
            pushed == IF memberId \in MemberIds(ms) /\ ~Contains(list, memberId)
                      THEN Append(list, memberId) ELSE list
            entered == [memberGenerations |-> Put(st.memberGenerations, memberId, generation),
                        generations |-> Put(st.generations, generation, pushed),
                        visited |-> st.visited \cup {memberId}]
            F[i \in 0 .. Len(rels)] ==
                IF i = 0 THEN entered
                ELSE IF rels[i].type = "parent" /\ rels[i].fromMemberId = memberId
                     THEN assignGenerationRevisit(ms, rels, rels[i].toMemberId, generation + 1, F[i - 1])
                     ELSE F[i - 1]
        IN  F[Len(rels)]

\* lines 65-83: st is [memberGenerations, generations, visited]
RECURSIVE assignGeneration(_, _, _, _, _)
assignGeneration(ms, rels, memberId, generation, st) ==
    IF memberId \in st.visited THEN st
    ELSE
        LET list == IF generation \in DOMAIN st.generations
                    THEN st.generations[generation] ELSE <<>>
            pushed == IF memberId \in MemberIds(ms) /\ ~Contains(list, memberId)
                      THEN Append(list, memberId) ELSE list
            entered == [memberGenerations |-> Put(st.memberGenerations, memberId, generation),
                        generations |-> Put(st.generations, generation, pushed),
                        visited |-> st.visited \cup {memberId}]
            F[i \in 0 .. Len(rels)] ==
                IF i = 0 THEN entered
                ELSE IF rels[i].type = "parent" /\ rels[i].fromMemberId = memberId
                     THEN assignGeneration(ms, rels, rels[i].toMemberId, generation + 1, F[i - 1])
                     ELSE F[i - 1]
        IN  F[Len(rels)]

\* lines 86-88: one walk from every root, each with a visited set of its own
AssignFromRoots(ms, rels) ==
    LET roots == RootMembers(ms, rels, "parent")
        F[i \in 0 .. Len(roots)] ==
            IF i = 0 THEN [memberGenerations |-> <<>>, generations |-> <<>>, visited |-> {}]
            ELSE assignGeneration(ms, rels, roots[i], 0, [F[i - 1] EXCEPT !.visited = {}])
    IN  F[Len(roots)]

\* line 93: Math.max(...Object.keys(generations).map(Number)) + 1 || 0
NextGeneration(gens) ==
    LET top == IF DOMAIN gens = {} THEN NegInfinity ELSE Max(DOMAIN gens)
    IN  IF PlusOne(top) = 0 THEN 0 ELSE PlusOne(top)

\* lines 91-98: members no walk has reached
AssignOrphans(ms, st) ==
    LET F[i \in 0 .. Len(ms)] ==
            IF i = 0 THEN st
            ELSE IF ms[i].id \in DOMAIN F[i - 1].memberGenerations THEN F[i - 1]
            ELSE LET gen == NextGeneration(F[i - 1].generations)
                     list == IF gen \in DOMAIN F[i - 1].generations
                             THEN F[i - 1].generations[gen] ELSE <<>>
                 IN  [F[i - 1] EXCEPT
                        !.memberGenerations = Put(@, ms[i].id, gen),
                        !.generations = Put(@, gen, Append(list, ms[i].id))]
    IN  F[Len(ms)]

\* lines 50-98
GenerationsOf(ms, rels) == AssignOrphans(ms, AssignFromRoots(ms, rels))

\* Layout constants of the earlier handler, in pixels: lines 102-104
startY == 100
generationSpacing == 250
memberSpacing == 200
GEN_CENTER_X == 400

MaxGenerationSize(gens) ==
    IF DOMAIN gens = {} THEN 0 ELSE Max({ Len(gens[g]) : g \in DOMAIN gens })

\* lines 106-123: one PATCH per entry of every generation's list
GenerationRequests(run, gens) ==
    { [run |-> run,
       id |-> gens[g][index],
       x |-> (GEN_CENTER_X * Scale - ((Len(gens[g]) - 1) * memberSpacing * Scale) \div 2)
               + (index - 1) * memberSpacing * Scale,
       y |-> (startY + g * generationSpacing) * Scale] :
      <<g, index>> \in { q \in (DOMAIN gens) \X (1 .. MaxGenerationSize(gens)) :
                            q[2] \in DOMAIN gens[q[1]] } }

\* The earlier handler, lines 43-123, up to its await.  It has no busy
\* flag and no catch.  parseInt of the key "-Infinity" is NaN, generations[NaN]
\* is undefined, and its forEach throws before any PATCH is sent.  After the
\* await the page reloads (line 128), which reads the stored snapshot again.
handleAutoAlignByGeneration ==
    /\ runs < MaxRuns
    /\ LET g == GenerationsOf(members, relationships)
       IN  /\ memberGenerations' = g.memberGenerations
           /\ generations' = g.generations
           /\ IF NegInfinity \in DOMAIN g.generations
              THEN /\ threw' = TRUE
                   /\ pending' = pending
              ELSE /\ threw' = FALSE
                   /\ pending' = pending \cup GenerationRequests(runs + 1, g.generations)
    /\ runs' = runs + 1
    /\ UNCHANGED <<members, relationships, isAutoAligning, pc, memberPositions, nextX,
                   calls, exact, writeFailed, prevPositions, drawn, rendered,
                   stats, netVars, storageVars>>

---------------------------------------------------------------------------
(* The sidebar's statistics: sidebar-controls.tsx lines 34-77 *)

\* line 35, and the walk's memberGenerations before any walk
NoStats == [totalMembers |-> 0, generations |-> 0, couples |-> 0, memberGenerations |-> <<>>]

\* lines 54-67: st is [memberGenerations, generations, visited], generations
\* a Set of numbers
RECURSIVE StatsAssignGeneration(_, _, _, _)
StatsAssignGeneration(rels, memberId, generation, st) ==
    IF memberId \in st.visited THEN st
    ELSE
        LET entered == [memberGenerations |-> Put(st.memberGenerations, memberId, generation),
                        generations |-> st.generations \cup {generation},
                        visited |-> st.visited \cup {memberId}]
            F[i \in 0 .. Len(rels)] ==
                IF i = 0 THEN entered
                ELSE IF rels[i].type = "parent-child" /\ rels[i].fromMemberId = memberId
                     THEN StatsAssignGeneration(rels, rels[i].toMemberId, generation + 1, F[i - 1])
                     ELSE F[i - 1]
        IN  F[Len(rels)]

\* lines 37-76; memberGenerations is the local of that name when it returns
calculateStats(ms, rels) ==
    LET roots == RootMembers(ms, rels, "parent-child")
        F[i \in 0 .. Len(roots)] ==
            IF i = 0 THEN [memberGenerations |-> <<>>, generations |-> {}, visited |-> {}]
            ELSE StatsAssignGeneration(rels, roots[i], 0, [F[i - 1] EXCEPT !.visited = {}])
        IsSpouse(r) == r.type = "spouse"
    IN  [totalMembers |-> Len(ms),
         generations |-> Cardinality(F[Len(roots)].generations),
         couples |-> Len(SelectSeq(rels, IsSpouse)),
         memberGenerations |-> F[Len(roots)].memberGenerations]

\* The sidebar renders: line 79
SidebarRender ==
    /\ stats' = calculateStats(members, relationships)
    /\ UNCHANGED <<members, relationships, isAutoAligning, pc, memberPositions, nextX,
                   calls, threw, exact, pending, writeFailed, runs, prevPositions,
                   drawn, rendered, memberGenerations, generations, netVars, storageVars>>

---------------------------------------------------------------------------
(* Snapshots *)

NoOp == [op |-> "none", id |-> 0, error |-> ""]

\* Nothing reported, no generation assigned, and a storage that has handed
\* out the ids of the snapshot
InitRest ==
    /\ lost = {}
    /\ reports = <<>>
    /\ memberGenerations = <<>>
    /\ generations = <<>>
    /\ stats = NoStats
    /\ currentMemberId = Len(members) + 1
    /\ currentRelationshipId = Len(relationships) + 1
    /\ lastOp = NoOp

LayoutTypes == {"parent-child", "spouse"}

LayoutRels(ids) ==
    [fromMemberId : ids, toMemberId : ids, type : LayoutTypes, status : {"active"}]

\* UNIQUE(from_member_id, to_member_id, type) of the relationships table
UniqueEdges(rels) ==
    \A i, j \in DOMAIN rels :
        ( /\ rels[i].fromMemberId = rels[j].fromMemberId
          /\ rels[i].toMemberId = rels[j].toMemberId
          /\ rels[i].type = rels[j].type ) => i = j

\* The relationship lists of at most n records over S
SeqsUpTo(S, n) == { rels \in UNION { [1 .. k -> S] : k \in 0 .. n } : UniqueEdges(rels) }

\* The members a storage holds after n createFamilyMember calls, unplaced
FreshMembers(n) == [i \in 1 .. n |-> [id |-> i, x |-> 0, y |-> 0]]

\* A snapshot of at most maxMembers unplaced members and maxRels
\* relationships over the ids 1 .. maxMembers, before any run or render
InitOf(maxMembers, maxRels) ==
    /\ members \in { FreshMembers(n) : n \in 0 .. maxMembers }
    /\ relationships \in SeqsUpTo(LayoutRels(1 .. maxMembers), maxRels)
    /\ isAutoAligning = FALSE
    /\ pc = "idle"
    /\ memberPositions = <<>>
    /\ nextX = 0
    /\ calls = <<>>
    /\ threw = FALSE
    /\ exact = TRUE
    /\ pending = {}
    /\ writeFailed = FALSE
    /\ runs = 0
    /\ prevPositions = <<>>
    /\ drawn = <<>>
    /\ rendered = FALSE
    /\ InitRest

Init == InitOf(MaxMembers, MaxRels)

Next ==
    \/ AutoAlignCompute
    \/ \E req \in pending : PositionWrite(req)
    \/ AutoAlignResume

\* Auto-align with every position write reaching the server
Spec == Init /\ [][Next]_vars

\* Auto-align with position writes that may be lost
NextNet ==
    \/ Next
    \/ \E req \in pending : PositionWriteFails(req)
    \/ \E req \in pending : PositionWriteNotFound(req)

SpecNet == Init /\ [][NextNet]_vars

\* Every fetch settles: it resolves with the server's answer or it rejects
Answered ==
    \E req \in pending :
        PositionWrite(req) \/ PositionWriteFails(req) \/ PositionWriteNotFound(req)

\* A settled fetch resolves its promise, and the continuation of an await
\* whose promise has settled is run
FairNet == WF_vars(Answered) /\ WF_vars(AutoAlignResume)

SpecLive == Init /\ [][NextNet]_vars /\ FairNet

\* Snapshots of the earlier schema: parent and spouse records
GenerationRels(ids) ==
    [fromMemberId : ids, toMemberId : ids, type : {"parent", "spouse"}, status : {"active"}]

InitGen ==
    /\ members \in { FreshMembers(n) : n \in 0 .. MaxMembers }
    /\ relationships \in SeqsUpTo(GenerationRels(1 .. MaxMembers), MaxRels)
    /\ isAutoAligning = FALSE
    /\ pc = "idle"
    /\ memberPositions = <<>>
    /\ nextX = 0
    /\ calls = <<>>
    /\ threw = FALSE
    /\ exact = TRUE
    /\ pending = {}
    /\ writeFailed = FALSE
    /\ runs = 0
    /\ prevPositions = <<>>
    /\ drawn = <<>>
    /\ rendered = FALSE
    /\ InitRest

NextGen ==
    \/ handleAutoAlignByGeneration
    \/ \E req \in pending : PositionWrite(req)

SpecGen == InitGen /\ [][NextGen]_vars

\* The earlier handler over families one member and one parent record larger
ParentRels(ids) ==
    [fromMemberId : ids, toMemberId : ids, type : {"parent"}, status : {"active"}]

InitGenWide ==
    /\ members = FreshMembers(MaxMembers + 1)
    /\ relationships \in SeqsUpTo(ParentRels(1 .. MaxMembers + 1), MaxRels + 1)
    /\ isAutoAligning = FALSE
    /\ pc = "idle"
    /\ memberPositions = <<>>
    /\ nextX = 0
    /\ calls = <<>>
    /\ threw = FALSE
    /\ exact = TRUE
    /\ pending = {}
    /\ writeFailed = FALSE
    /\ runs = 0
    /\ prevPositions = <<>>
    /\ drawn = <<>>
    /\ rendered = FALSE
    /\ InitRest

SpecGenWide == InitGenWide /\ [][NextGen]_vars

\* Snapshots holding parent records of both schemas
StatsRels(ids) ==
    [fromMemberId : ids, toMemberId : ids, type : {"parent", "parent-child"},
     status : {"active"}]

InitStats ==
    /\ members \in { FreshMembers(n) : n \in 0 .. MaxMembers }
    /\ relationships \in SeqsUpTo(StatsRels(1 .. MaxMembers), MaxRels)
    /\ isAutoAligning = FALSE
    /\ pc = "idle"
    /\ memberPositions = <<>>
    /\ nextX = 0
    /\ calls = <<>>
    /\ threw = FALSE
    /\ exact = TRUE
    /\ pending = {}
    /\ writeFailed = FALSE
    /\ runs = 0
    /\ prevPositions = <<>>
    /\ drawn = <<>>
    /\ rendered = FALSE
    /\ InitRest

NextStats ==
    \/ SidebarRender
    \/ handleAutoAlignByGeneration

\* Generation assignment by the sidebar and by the earlier handler, up to
\* the handler's await: the position writes, which change no id and no
\* relationship, are answered in SpecGen
SpecStats == InitStats /\ [][NextStats]_vars

\* The same handler over snapshots one member and one relationship larger
InitWide == InitOf(MaxMembers + 1, MaxRels + 1)

SpecWide == InitWide /\ [][Next]_vars

---------------------------------------------------------------------------
(* The render pass of the canvas: family-tree-canvas.tsx *)

ARROW_OFFSET == 5
Y_CLOSE == 20

\* familyTree.members.find(m => m.id === id): the first member of that id, as
\* a one-element sequence, or the empty sequence for undefined
FindMember(ms, id) ==
    LET HasId(m) == m.id = id
        found == SelectSeq(ms, HasId)
    IN  IF found = <<>> THEN <<>> ELSE <<found[1]>>

\* lines 161-164: the members recorded as parents of a child
ParentsOf(ms, rels, childId) ==
    LET IsParentEdge(r) == r.type = "parent-child" /\ r.toMemberId = childId
    IN  Flatten([i \in DOMAIN SelectSeq(rels, IsParentEdge) |->
                    FindMember(ms, SelectSeq(rels, IsParentEdge)[i].fromMemberId)])

Abs(v) == IF v < 0 THEN -v ELSE v

\* lines 166-177
UseMidpoint(rels, parents) ==
    /\ Len(parents) = 2
    /\ \E i \in DOMAIN rels :
          /\ rels[i].type = "spouse"
          /\ \/ rels[i].fromMemberId = parents[1].id /\ rels[i].toMemberId = parents[2].id
             \/ rels[i].fromMemberId = parents[2].id /\ rels[i].toMemberId = parents[1].id
    /\ Abs(parents[1].y - parents[2].y) < Y_CLOSE * Scale

\* drawRelationship: lines 140-248.  The group appended to the svg: the
\* line's end points, whether it carries an arrow head, and its status label.
drawRelationship(ms, rels, from, to, relationship) ==
    LET half == (CARD_WIDTH * Scale) \div 2
        centers == [x1 |-> from.x + half, y1 |-> from.y + (CARD_HEIGHT * Scale) \div 2,
                    x2 |-> to.x + half,   y2 |-> to.y + (CARD_HEIGHT * Scale) \div 2]
        parents == ParentsOf(ms, rels, to.id)
        ends ==
            IF relationship.type = "spouse" THEN centers
            ELSE IF relationship.type = "parent-child" THEN
                IF UseMidpoint(rels, parents)
                THEN [x1 |-> (parents[1].x + half + parents[2].x + half) \div 2,
                      y1 |-> Max({parents[1].y, parents[2].y}) + CARD_HEIGHT * Scale,
                      x2 |-> to.x + half, y2 |-> to.y - ARROW_OFFSET * Scale]
                ELSE [x1 |-> from.x + half, y1 |-> from.y + CARD_HEIGHT * Scale,
                      x2 |-> to.x + half, y2 |-> to.y - ARROW_OFFSET * Scale]
            ELSE centers
    IN  [type |-> relationship.type,
         fromMemberId |-> relationship.fromMemberId,
         toMemberId |-> relationship.toMemberId,
         x1 |-> ends.x1, y1 |-> ends.y1, x2 |-> ends.x2, y2 |-> ends.y2,
         arrow |-> relationship.type \in {"parent-child", "adopted", "guardian"},
         label |-> IF relationship.status # "active" THEN relationship.status ELSE ""]

\* Mutant of RelationshipKey: the key keeps the direction of the record
RelationshipKeyDirected(rel) ==
    <<rel.type, rel.fromMemberId, rel.toMemberId>>

\* line 130
RelationshipKey(rel) ==
    <<rel.type,
      Min({rel.fromMemberId, rel.toMemberId}),
      Max({rel.fromMemberId, rel.toMemberId})>>

\* Mutant of DrawRel: no check that both members were found; a missing
\* member is drawn from the origin
DrawRelUnchecked(ms, rels, acc, rel) ==
    LET origin == [id |-> 0, x |-> 0, y |-> 0]
        fromMember == FindMember(ms, rel.fromMemberId) \o <<origin>>
        toMember == FindMember(ms, rel.toMemberId) \o <<origin>>
    IN  IF RelationshipKey(rel) \notin acc.drawnRelationships
        THEN [drawnRelationships |-> acc.drawnRelationships \cup {RelationshipKey(rel)},
              svg |-> Append(acc.svg,
                             drawRelationship(ms, rels, fromMember[1], toMember[1], rel))]
        ELSE acc

\* One iteration of familyTree.relationships.forEach: lines 124-137
DrawRel(ms, rels, acc, rel) ==
    LET fromMember == FindMember(ms, rel.fromMemberId)
        toMember == FindMember(ms, rel.toMemberId)
    IN  IF fromMember # <<>> /\ toMember # <<>>
        THEN IF RelationshipKey(rel) \notin acc.drawnRelationships
             THEN [drawnRelationships |-> acc.drawnRelationships \cup {RelationshipKey(rel)},
                   svg |-> Append(acc.svg,
                                  drawRelationship(ms, rels, fromMember[1], toMember[1], rel))]
             ELSE acc
        ELSE acc

\* Mutant of RenderAll: the list is walked from its last record to its first
RenderAllBackwards(ms, rels) ==
    LET D[i \in 0 .. Len(rels)] ==
            IF i = 0 THEN [drawnRelationships |-> {}, svg |-> <<>>]
            ELSE DrawRel(ms, rels, D[i - 1], rels[Len(rels) + 1 - i])
    IN  D[Len(rels)]

\* The draw effect: lines 114-138
RenderAll(ms, rels) ==
    LET D[i \in 0 .. Len(rels)] ==
            IF i = 0 THEN [drawnRelationships |-> {}, svg |-> <<>>]
            ELSE DrawRel(ms, rels, D[i - 1], rels[i])
    IN  D[Len(rels)]

RenderPass ==
    /\ ~rendered
    /\ drawn' = RenderAll(members, relationships).svg
    /\ rendered' = TRUE
    /\ UNCHANGED <<members, relationships, isAutoAligning, pc, memberPositions, nextX,
                   calls, threw, exact, pending, writeFailed, runs, prevPositions,
                   netVars, genVars, storageVars>>

(* Snapshots of positioned members for the render pass *)

MaxRenderMembers == 3
MaxRenderRels == 2
RenderIds == 1 .. MaxRenderMembers

RenderRels ==
    [fromMemberId : RenderIds, toMemberId : RenderIds,
     type : {"parent-child", "guardian"}, status : {"active"}]
    \cup [fromMemberId : RenderIds, toMemberId : RenderIds,
          type : {"spouse"}, status : {"active", "divorced"}]

\* Cards side by side, one card width plus gap apart; the second card level
\* with the first, just within or just beyond the alignment tolerance; the
\* third one row below
PlacedMembers(n, y2) ==
    [i \in 1 .. n |->
        [id |-> i,
         x |-> (i - 1) * (CARD_WIDTH + X_SPACING) * Scale,
         y |-> IF i = 2 THEN y2 * Scale
               ELSE IF i = 3 THEN (CARD_HEIGHT + Y_SPACING) * Scale ELSE 0]]

InitRender ==
    /\ members \in { PlacedMembers(n, y2) :
                        n \in MaxRenderMembers - 1 .. MaxRenderMembers,
                        y2 \in {0, Y_CLOSE - 1, Y_CLOSE} }
    /\ relationships \in SeqsUpTo(RenderRels, MaxRenderRels)
    /\ isAutoAligning = FALSE
    /\ pc = "idle"
    /\ memberPositions = <<>>
    /\ nextX = 0
    /\ calls = <<>>
    /\ threw = FALSE
    /\ exact = TRUE
    /\ pending = {}
    /\ writeFailed = FALSE
    /\ runs = 0
    /\ prevPositions = <<>>
    /\ drawn = <<>>
    /\ rendered = FALSE
    /\ InitRest

NextRender == RenderPass

SpecRender == InitRender /\ [][NextRender]_vars

---------------------------------------------------------------------------
(* The storage behind the routes: server/storage.ts.  members and          *)
(* relationships are its rows, in insertion order.  Its methods are called *)
(* one at a time, as the tests call them.                                  *)

\* Everything the storage does not touch
pageVars == <<isAutoAligning, pc, memberPositions, nextX, calls, threw, exact, pending,
              writeFailed, runs, prevPositions, drawn, rendered, netVars, genVars>>

NOT_FOUND == "Family member not found"

Called(op, id, error) == [op |-> op, id |-> id, error |-> error]

HasMember(ms, id) == id \in MemberIds(ms)

\* { ...member, ...update }
Merge(m, update) == [f \in DOMAIN m |-> IF f \in DOMAIN update THEN update[f] ELSE m[f]]

UpdateMember(ms, id, update) ==
    [i \in DOMAIN ms |-> IF ms[i].id = id THEN Merge(ms[i], update) ELSE ms[i]]

WithoutMember(ms, id) ==
    LET Other(m) == m.id # id
    IN  SelectSeq(ms, Other)

\* Mutant of WithoutRelationshipsOf: only the relationships from the member go
WithoutRelationshipsFrom(rels, id) ==
    LET Other(r) == r.fromMemberId # id
    IN  SelectSeq(rels, Other)

WithoutRelationshipsOf(rels, id) ==
    LET Other(r) == r.fromMemberId # id /\ r.toMemberId # id
    IN  SelectSeq(rels, Other)

(* MemStorage: part_008 lines 19-111 *)

MemStorage_createFamilyMember(insertMember) ==
    /\ members' = Append(members, Merge([id |-> currentMemberId, x |-> 0, y |-> 0],
                                        insertMember))
    /\ currentMemberId' = currentMemberId + 1
    /\ lastOp' = Called("createFamilyMember", currentMemberId, "")
    /\ UNCHANGED <<relationships, currentRelationshipId, pageVars>>

MemStorage_updateFamilyMemberPosition(id, x, y) ==
    /\ IF HasMember(members, id)
       THEN /\ members' = UpdateMember(members, id, [x |-> x, y |-> y])
            /\ lastOp' = Called("updateFamilyMemberPosition", id, "")
       ELSE /\ members' = members
            /\ lastOp' = Called("updateFamilyMemberPosition", id, NOT_FOUND)
    /\ UNCHANGED <<relationships, currentMemberId, currentRelationshipId, pageVars>>

MemStorage_createRelationship(insertRelationship) ==
    /\ relationships' = Append(relationships,
                               Merge([id |-> currentRelationshipId,
                                      fromMemberId |-> insertRelationship.fromMemberId,
                                      toMemberId |-> insertRelationship.toMemberId,
                                      type |-> insertRelationship.type],
                                     insertRelationship))
    /\ currentRelationshipId' = currentRelationshipId + 1
    /\ lastOp' = Called("createRelationship", currentRelationshipId, "")
    /\ UNCHANGED <<members, currentMemberId, pageVars>>

MemStorage_deleteFamilyMember(id) ==
    /\ members' = WithoutMember(members, id)
    /\ relationships' = WithoutRelationshipsOf(relationships, id)
    /\ lastOp' = Called("deleteFamilyMember", id, "")
    /\ UNCHANGED <<currentMemberId, currentRelationshipId, pageVars>>

(* PostgresStorage over the tables of migrations/0002_schema_update.sql:   *)
(* part_008 lines 173-313                                                  *)

FK_VIOLATION == "violates foreign key constraint"
UNIQUE_VIOLATION == "violates unique constraint"

PostgresStorage_createFamilyMember(insertMember) ==
    /\ members' = Append(members, Merge([id |-> currentMemberId, x |-> 0, y |-> 0],
                                        insertMember))
    /\ currentMemberId' = currentMemberId + 1
    /\ lastOp' = Called("createFamilyMember", currentMemberId, "")
    /\ UNCHANGED <<relationships, currentRelationshipId, pageVars>>

PostgresStorage_updateFamilyMemberPosition(id, x, y) ==
    /\ IF HasMember(members, id)
       THEN /\ members' = UpdateMember(members, id, [x |-> x, y |-> y])
            /\ lastOp' = Called("updateFamilyMemberPosition", id, "")
       ELSE /\ members' = members
            /\ lastOp' = Called("updateFamilyMemberPosition", id, NOT_FOUND)
    /\ UNCHANGED <<relationships, currentMemberId, currentRelationshipId, pageVars>>

PostgresStorage_updateFamilyMember(id, memberUpdate) ==
    /\ IF HasMember(members, id)
       THEN /\ members' = UpdateMember(members, id, memberUpdate)
            /\ lastOp' = Called("updateFamilyMember", id, "")
       ELSE /\ members' = members
            /\ lastOp' = Called("updateFamilyMember", id, NOT_FOUND)
    /\ UNCHANGED <<relationships, currentMemberId, currentRelationshipId, pageVars>>

\* The insert takes its id from the sequence, and the table then checks its
\* REFERENCES and UNIQUE constraints; a rejected insert keeps the id it took.
PostgresStorage_createRelationship(insertRelationship) ==
    LET row == Merge([id |-> currentRelationshipId,
                      fromMemberId |-> insertRelationship.fromMemberId,
                      toMemberId |-> insertRelationship.toMemberId,
                      type |-> insertRelationship.type,
                      status |-> "active"],
                     insertRelationship)
    IN  /\ currentRelationshipId' = currentRelationshipId + 1
        /\ IF ~HasMember(members, row.fromMemberId) \/ ~HasMember(members, row.toMemberId)
           THEN /\ relationships' = relationships
                /\ lastOp' = Called("createRelationship", currentRelationshipId, FK_VIOLATION)
           ELSE IF ~UniqueEdges(Append(relationships, row))
           THEN /\ relationships' = relationships
                /\ lastOp' = Called("createRelationship", currentRelationshipId,
                                    UNIQUE_VIOLATION)
           ELSE /\ relationships' = Append(relationships, row)
                /\ lastOp' = Called("createRelationship", currentRelationshipId, "")
        /\ UNCHANGED <<members, currentMemberId, pageVars>>

\* Mutant of PostgresStorage_deleteFamilyMember: no check that the member exists
PostgresStorage_deleteUnchecked(id) ==
    /\ relationships' = WithoutRelationshipsOf(relationships, id)
    /\ members' = WithoutMember(members, id)
    /\ lastOp' = Called("deleteFamilyMember", id, "")
    /\ UNCHANGED <<currentMemberId, currentRelationshipId, pageVars>>

PostgresStorage_deleteFamilyMember(id) ==
    /\ IF ~HasMember(members, id)
       THEN /\ UNCHANGED <<members, relationships>>
            /\ lastOp' = Called("deleteFamilyMember", id, NOT_FOUND)
       ELSE /\ relationships' = WithoutRelationshipsOf(relationships, id)
            /\ members' = WithoutMember(members, id)
            /\ lastOp' = Called("deleteFamilyMember", id, "")
    /\ UNCHANGED <<currentMemberId, currentRelationshipId, pageVars>>

(* Calls on the storage *)

MaxSerial == 3
MaxRelSerial == 2

\* Ids a caller may pass: those the storage can have handed out
CallIds == 1 .. MaxSerial

InsertMembers == { [x |-> 0, y |-> 0] }

\* A position one card width plus gap to the right and one row down
MovedTo == { [x |-> (CARD_WIDTH + X_SPACING) * Scale,
              y |-> (CARD_HEIGHT + Y_SPACING) * Scale] }

\* A partial update that puts the member back at the origin
MemberUpdates == { [x |-> 0, y |-> 0] }

InsertRelationships ==
    [fromMemberId : CallIds, toMemberId : CallIds, type : {"parent-child"}]

PageIdle ==
    /\ isAutoAligning = FALSE
    /\ pc = "idle"
    /\ memberPositions = <<>>
    /\ nextX = 0
    /\ calls = <<>>
    /\ threw = FALSE
    /\ exact = TRUE
    /\ pending = {}
    /\ writeFailed = FALSE
    /\ runs = 0
    /\ prevPositions = <<>>
    /\ drawn = <<>>
    /\ rendered = FALSE
    /\ lost = {}
    /\ reports = <<>>
    /\ memberGenerations = <<>>
    /\ generations = <<>>
    /\ stats = NoStats

\* The tables after the migrations: no rows, sequences at 1
InitPostgresStorage ==
    /\ members = <<>>
    /\ relationships = <<>>
    /\ currentMemberId = 1
    /\ currentRelationshipId = 1
    /\ lastOp = NoOp
    /\ PageIdle

NextPostgresStorage ==
    \/ \E m \in InsertMembers :
          currentMemberId <= MaxSerial /\ PostgresStorage_createFamilyMember(m)
    \/ \E id \in CallIds, p \in MovedTo : PostgresStorage_updateFamilyMemberPosition(id, p.x, p.y)
    \/ \E id \in CallIds, u \in MemberUpdates : PostgresStorage_updateFamilyMember(id, u)
    \/ \E r \in InsertRelationships :
          currentRelationshipId <= MaxRelSerial /\ PostgresStorage_createRelationship(r)
    \/ \E id \in CallIds : PostgresStorage_deleteFamilyMember(id)

SpecPostgresStorage == InitPostgresStorage /\ [][NextPostgresStorage]_vars

\* MemStorage after its constructor: the sample family, lines 35-59
SampleMembers ==
    << [id |-> 1, x |-> 200 * Scale, y |-> 50 * Scale],
       [id |-> 2, x |-> 480 * Scale, y |-> 50 * Scale],
       [id |-> 3, x |-> 340 * Scale, y |-> 200 * Scale],
       [id |-> 4, x |-> 620 * Scale, y |-> 200 * Scale],
       [id |-> 5, x |-> 480 * Scale, y |-> 350 * Scale] >>

SampleRelationships ==
    << [id |-> 1, fromMemberId |-> 1, toMemberId |-> 3, type |-> "parent"],
       [id |-> 2, fromMemberId |-> 2, toMemberId |-> 3, type |-> "parent"],
       [id |-> 3, fromMemberId |-> 1, toMemberId |-> 2, type |-> "spouse"],
       [id |-> 4, fromMemberId |-> 3, toMemberId |-> 4, type |-> "spouse"],
       [id |-> 5, fromMemberId |-> 3, toMemberId |-> 5, type |-> "parent"],
       [id |-> 6, fromMemberId |-> 4, toMemberId |-> 5, type |-> "parent"] >>

InitMemStorage ==
    /\ members = SampleMembers
    /\ relationships = SampleRelationships
    /\ currentMemberId = Len(SampleMembers) + 1
    /\ currentRelationshipId = Len(SampleRelationships) + 1
    /\ lastOp = NoOp
    /\ PageIdle

\* How many members and relationships are created on top of the sample
MaxSampleGrowth == 1

\* Ids a caller may pass: the first, the last and one past the sample's, and
\* those of the members created since
MemCallIds ==
    {1, Len(SampleMembers)} \cup (Len(SampleMembers) + 1 .. Len(SampleMembers) + MaxSampleGrowth + 1)

MemInsertRelationships ==
    [fromMemberId : MemCallIds, toMemberId : MemCallIds, type : {"parent", "spouse"}]

NextMemStorage ==
    \/ \E m \in InsertMembers :
          /\ currentMemberId <= Len(SampleMembers) + MaxSampleGrowth
          /\ MemStorage_createFamilyMember(m)
    \/ \E id \in MemCallIds, p \in MovedTo : MemStorage_updateFamilyMemberPosition(id, p.x, p.y)
    \/ \E r \in MemInsertRelationships :
          /\ currentRelationshipId <= Len(SampleRelationships) + MaxSampleGrowth
          /\ MemStorage_createRelationship(r)
    \/ \E id \in MemCallIds : MemStorage_deleteFamilyMember(id)

SpecMemStorage == InitMemStorage /\ [][NextMemStorage]_vars

(* Snapshots for the routing of parent-child lines: member 3 one row below *)
(* the others, parent-child records from the others to member 3, and       *)
(* spouse records between members 1 and 2, active or divorced              *)

MaxRouteMembers == 4
MaxRouteRels == 3

RouteRels ==
    [fromMemberId : (1 .. MaxRouteMembers) \ {3}, toMemberId : {3},
     type : {"parent-child"}, status : {"active"}]
    \cup { r \in [fromMemberId : {1, 2}, toMemberId : {1, 2},
                  type : {"spouse"}, status : {"active", "divorced"}] :
              r.fromMemberId # r.toMemberId }

InitRoute ==
    /\ members \in { PlacedMembers(n, y2) :
                        n \in MaxRouteMembers - 1 .. MaxRouteMembers,
                        y2 \in {0, Y_CLOSE - 1, Y_CLOSE} }
    /\ relationships \in SeqsUpTo(RouteRels, MaxRouteRels)
    /\ isAutoAligning = FALSE
    /\ pc = "idle"
    /\ memberPositions = <<>>
    /\ nextX = 0
    /\ calls = <<>>
    /\ threw = FALSE
    /\ exact = TRUE
    /\ pending = {}
    /\ writeFailed = FALSE
    /\ runs = 0
    /\ prevPositions = <<>>
    /\ drawn = <<>>
    /\ rendered = FALSE
    /\ InitRest

SpecRoute == InitRoute /\ [][NextRender]_vars

(* Auto-align followed by a render pass, on the couple scenario: two       *)
(* members joined by an active spouse record, in either direction, and a   *)
(* third with a parent-child record from each, the records in any order    *)

CoupleMembers == 3

CoupleRels(p1, p2, c) ==
    { [fromMemberId |-> p1, toMemberId |-> p2, type |-> "spouse", status |-> "active"],
      [fromMemberId |-> p1, toMemberId |-> c, type |-> "parent-child", status |-> "active"],
      [fromMemberId |-> p2, toMemberId |-> c, type |-> "parent-child", status |-> "active"] }

InitCouple ==
    /\ members = FreshMembers(CoupleMembers)
    /\ \E p1, p2, c \in 1 .. CoupleMembers :
          /\ Cardinality({p1, p2, c}) = 3
          /\ relationships \in { rels \in [1 .. 3 -> CoupleRels(p1, p2, c)] :
                                    Range(rels) = CoupleRels(p1, p2, c) }
    /\ isAutoAligning = FALSE
    /\ pc = "idle"
    /\ memberPositions = <<>>
    /\ nextX = 0
    /\ calls = <<>>
    /\ threw = FALSE
    /\ exact = TRUE
    /\ pending = {}
    /\ writeFailed = FALSE
    /\ runs = 0
    /\ prevPositions = <<>>
    /\ drawn = <<>>
    /\ rendered = FALSE
    /\ InitRest

NextCouple ==
    \/ Next
    \/ RenderPass

SpecCouple == InitCouple /\ [][NextCouple]_vars

\* Every coordinate of a run is a whole number of 1/Scale pixels
ArithmeticExact == exact

---------------------------------------------------------------------------
(* Vocabulary of the properties *)

Idx == BuildIndex(members, relationships)

\* A run has computed a Position Map: the computation returned normally
Completed == runs > 0 /\ ~threw

ClusterOf(id) == getSpouseGroup(Idx, id)

ParentChild(a, b) ==
    \E i \in DOMAIN relationships :
        /\ relationships[i].type = "parent-child"
        /\ relationships[i].fromMemberId = a
        /\ relationships[i].toMemberId = b

WellFormedRel(r) ==
    r.fromMemberId \in MemberIds(members) /\ r.toMemberId \in MemberIds(members)

WellFormedRels == SelectSeq(relationships, WellFormedRel)

\* Members below a set of members: children of its members, and the spouse
\* clusters of those children, transitively
RECURSIVE Below(_)
Below(S) ==
    LET kids == { c \in MemberIds(members) : \E a \in S : ParentChild(a, c) }
        more == UNION { Range(ClusterOf(c)) : c \in kids }
    IN  IF more \subseteq S THEN S ELSE Below(S \cup more)

Related(g, h) ==
    \/ Range(h) \cap Below(Range(g)) # {}
    \/ Range(g) \cap Below(Range(h)) # {}

Placed(cluster) == Range(cluster) \subseteq DOMAIN memberPositions

SpanLeft(cluster) == Min({ memberPositions[m].x : m \in Range(cluster) })
SpanRight(cluster) ==
    Max({ memberPositions[m].x : m \in Range(cluster) }) + CARD_WIDTH * Scale

\* Twice the horizontal centre of a cluster, as layoutUnit returns it
Center2(cluster) ==
    memberPositions[cluster[1]].x + memberPositions[cluster[Len(cluster)]].x

\* The members every member of the cluster is a recorded parent of
SharedChildren(cluster) ==
    { c \in MemberIds(members) : \A p \in Range(cluster) : ParentChild(p, c) }

---------------------------------------------------------------------------
(* C1 No-overlap: after a complete run, two spouse clusters placed at the  *)
(* same depth, neither an ancestor of the other, have horizontal spans     *)
(* (leftmost x to rightmost x + CARD_WIDTH) that do not intersect.         *)
C1_NoOverlap ==
    Completed =>
        \A a, b \in DOMAIN memberPositions :
            LET g == ClusterOf(a)
                h == ClusterOf(b)
            IN  ( /\ g # h
                  /\ Placed(g) /\ Placed(h)
                  /\ memberPositions[a].y = memberPositions[b].y
                  /\ ~Related(g, h) )
                => (SpanRight(g) <= SpanLeft(h) \/ SpanRight(h) <= SpanLeft(g))

(* C2 Termination: on every snapshot whose edges all join members, cyclic  *)
(* or self-referencing parent-child edges included, the layout recursion   *)
(* returns with a Position Map; it never exhausts the call stack.          *)
C2_LayoutTerminates ==
    (runs > 0 /\ ~Idx.threw) => ~threw

(* C3 Coverage: after a complete run the Position Map has an entry for     *)
(* every member of the snapshot.                                           *)
C3_Coverage ==
    Completed => DOMAIN memberPositions = MemberIds(members)

(* C4 Centering: after a complete run, every placed cluster with a shared  *)
(* child is centred on the midpoint of the least and greatest centres of   *)
(* its shared children's clusters.                                         *)
C4_Centering ==
    Completed =>
        \A a \in DOMAIN memberPositions :
            LET g == ClusterOf(a)
                kids == SharedChildren(g)
            IN  ( /\ kids # {}
                  /\ Placed(g)
                  /\ \A c \in kids : Placed(ClusterOf(c)) )
                => LET cs == { Center2(ClusterOf(c)) : c \in kids }
                   IN  2 * Center2(g) = Min(cs) + Max(cs)

(* C5 Single-parent centering: after a complete run, a member with no      *)
(* spouse and exactly one child has the x of that child.                   *)
C5_SingleParentCentering ==
    Completed =>
        \A a \in DOMAIN memberPositions :
            ( /\ ClusterOf(a) = <<a>>
              /\ Cardinality(SharedChildren(<<a>>)) = 1 )
            => \A c \in SharedChildren(<<a>>) :
                   c \in DOMAIN memberPositions
                   => memberPositions[a].x = memberPositions[c].x

(* C6 Laid out once: within one run no member is positioned by more than   *)
(* one layoutUnit invocation.                                              *)
C6_LaidOutOnce ==
    \A i, j \in DOMAIN calls :
        i # j => Range(calls[i].parents) \cap Range(calls[j].parents) = {}

C9_MalformedEdgeDropped ==
    (runs > 0 /\ members # <<>>) =>
        LET r == ComputeLayout(members, WellFormedRels)
        IN  threw = r.threw /\ memberPositions = r.pos

(* C10 Malformed edge in rendering: a render pass draws exactly what it    *)
(* draws with the relationships whose from- or to-member is missing taken  *)
(* out of the list.                                                        *)
C10_MalformedEdgeSkipped ==
    rendered => drawn = RenderAll(members, WellFormedRels).svg

C10_Witness ==
    /\ rendered
    /\ \E i, j \in DOMAIN relationships :
          /\ i < j
          /\ ~WellFormedRel(relationships[i])
          /\ WellFormedRel(relationships[j])
          /\ relationships[i].type = relationships[j].type
          /\ relationships[i].type = "parent-child"
          /\ relationships[i].toMemberId = relationships[j].toMemberId
    /\ Len(drawn) >= 1

\* The drawn lines of a type that join members a and b, in either direction
LinesBetween(type, a, b) ==
    { i \in DOMAIN drawn :
        /\ drawn[i].type = type
        /\ {drawn[i].fromMemberId, drawn[i].toMemberId} = {a, b} }

\* The records of a type that join members a and b, in either direction
RecordsBetween(type, a, b) ==
    { i \in DOMAIN relationships :
        /\ relationships[i].type = type
        /\ {relationships[i].fromMemberId, relationships[i].toMemberId} = {a, b} }

(* C11 Spouse edge dedup: a render pass over a snapshot with two spouse    *)
(* records between the same two members, in whatever direction, draws      *)
(* exactly one spouse line between them.                                   *)
C11_SpouseDedup ==
    rendered =>
        \A a, b \in MemberIds(members) :
            Cardinality(RecordsBetween("spouse", a, b)) >= 2
            => Cardinality(LinesBetween("spouse", a, b)) = 1

C11_Witness ==
    /\ rendered
    /\ \E a, b \in MemberIds(members) :
          /\ a # b
          /\ \E i, j \in RecordsBetween("spouse", a, b) :
                /\ i # j
                /\ relationships[i].fromMemberId = relationships[j].toMemberId
          /\ Cardinality(LinesBetween("spouse", a, b)) = 1

\* The stored members carry the Position Map of a complete run
LaidOut ==
    /\ Completed
    /\ pending = {}
    /\ DOMAIN memberPositions = MemberIds(members)
    /\ \A id \in MemberIds(members) : PositionOf(members, id) = memberPositions[id]

LinesOfType(type) == { i \in DOMAIN drawn : drawn[i].type = type }

\* What the claim expects drawn for parents p1, p2 and child c
CoupleDrawn(p1, p2, c) ==
    /\ Cardinality(LinesOfType("spouse")) = 1
    /\ LinesOfType("spouse") = LinesBetween("spouse", p1, p2)
    /\ Cardinality(LinesOfType("parent-child")) = 1
    /\ \A i \in LinesOfType("parent-child") :
          /\ drawn[i].toMemberId = c
          /\ 2 * drawn[i].x1 = PositionOf(members, p1).x + PositionOf(members, p2).x
                                 + CARD_WIDTH * Scale
          /\ drawn[i].y1 = PositionOf(members, p1).y + CARD_HEIGHT * Scale
          /\ 2 * drawn[i].x2 = 2 * PositionOf(members, c).x + CARD_WIDTH * Scale

CoupleScenarioDrawn ==
    \A p1, p2, c \in MemberIds(members) :
        ( /\ RecordsBetween("spouse", p1, p2) # {}
          /\ ParentChild(p1, c)
          /\ ParentChild(p2, c) )
        => CoupleDrawn(p1, p2, c)

(* C12 Couple scenario: a render pass over the couple scenario as laid out *)
(* by auto-align draws exactly one spouse line, between the two parents,   *)
(* and exactly one parent-child line, which starts at the midpoint of the  *)
(* parents' bottom edges and ends at the child.                            *)
C12_CoupleLineCount ==
    [][(LaidOut /\ ~rendered /\ rendered') => CoupleScenarioDrawn']_vars

\* The members with a parent-child record to a child
RecordedParents(c) == { p \in MemberIds(members) : ParentChild(p, c) }

ActiveSpouses(a, b) ==
    \E i \in RecordsBetween("spouse", a, b) : relationships[i].status = "active"

\* The condition the claim gives for midpoint routing of the lines to child c
MidpointCase(c) ==
    /\ Cardinality(RecordedParents(c)) = 2
    /\ \A a, b \in RecordedParents(c) :
          a # b => /\ ActiveSpouses(a, b)
                   /\ Abs(PositionOf(members, a).y - PositionOf(members, b).y)
                         < Y_CLOSE * Scale

\* Twice the x, and the y, of the midpoint of the bottom edges of the parents of c
MidpointAnchor(c) ==
    [x2 |-> LET pair == CHOOSE q \in RecordedParents(c) \X RecordedParents(c) :
                            q[1] < q[2]
            IN  PositionOf(members, pair[1]).x + PositionOf(members, pair[2]).x
                  + CARD_WIDTH * Scale,
     y  |-> Max({ PositionOf(members, a).y : a \in RecordedParents(c) })
              + CARD_HEIGHT * Scale]

(* C13 Midpoint routing: a drawn parent-child line starts at the midpoint  *)
(* of two parents' bottom edges exactly when the child has two parents,    *)
(* these are joined by a spouse record of status active, and their y       *)
(* differ by less than 20; otherwise it starts at the bottom centre of the *)
(* record's own parent.                                                    *)
C13_MidpointRouting ==
    rendered =>
        \A i \in LinesOfType("parent-child") :
            LET c == drawn[i].toMemberId
                p == drawn[i].fromMemberId
            IN  IF MidpointCase(c)
                THEN /\ 2 * drawn[i].x1 = MidpointAnchor(c).x2
                     /\ drawn[i].y1 = MidpointAnchor(c).y
                ELSE /\ 2 * drawn[i].x1 = 2 * PositionOf(members, p).x + CARD_WIDTH * Scale
                     /\ drawn[i].y1 = PositionOf(members, p).y + CARD_HEIGHT * Scale

\* The members a walk along parent records from a parentless member reaches
RECURSIVE DescendantsBy(_, _)
DescendantsBy(parentType, S) ==
    LET kids == { relationships[i].toMemberId :
                    i \in { j \in DOMAIN relationships :
                               /\ relationships[j].type = parentType
                               /\ relationships[j].fromMemberId \in S } }
    IN  IF kids \subseteq S THEN S ELSE DescendantsBy(parentType, S \cup kids)

ReachableFromRoots(parentType) ==
    DescendantsBy(parentType, Range(RootMembers(members, relationships, parentType)))

\* The generations whose list holds member m
GenerationsHolding(m) == { g \in DOMAIN generations : Contains(generations[g], m) }

(* C14 Generation classification: after generation assignment, on every    *)
(* snapshot, every member has a generation that is a non-negative integer  *)
(* and is held by exactly one generation, and a member no root reaches has *)
(* a generation above those of the members the roots reach.                *)
C14_GenerationClassification ==
    runs > 0 =>
        /\ \A m \in MemberIds(members) :
              /\ m \in DOMAIN memberGenerations
              /\ memberGenerations[m] \in Nat
              /\ GenerationsHolding(m) = {memberGenerations[m]}
        /\ \A m \in MemberIds(members) \ ReachableFromRoots("parent") :
              \A r \in MemberIds(members) \cap ReachableFromRoots("parent") :
                  /\ m \in DOMAIN memberGenerations
                  /\ r \in DOMAIN memberGenerations
                  /\ memberGenerations[m] > memberGenerations[r]

(* C15 Write failure isolation: when a position write of a run fails, the  *)
(* run's other writes stay issued, no stored position changes, and the     *)
(* failure is reported.                                                    *)
C15_WriteFailureIsolation ==
    [][\A req \in lost' \ lost :
          /\ pending' = pending \ {req}
          /\ members' = members
          /\ \E i \in DOMAIN reports' : reports'[i].run = req.run]_vars

(* C16 Referential integrity: after any sequence of createFamilyMember,    *)
(* createRelationship and deleteFamilyMember calls, every stored           *)
(* relationship joins two stored members.                                  *)
C16_ReferentialIntegrity ==
    \A i \in DOMAIN relationships :
        /\ HasMember(members, relationships[i].fromMemberId)
        /\ HasMember(members, relationships[i].toMemberId)

\* The latest call was deleteFamilyMember on a member that was stored
DeletedStored(id) ==
    /\ lastOp'.op = "deleteFamilyMember"
    /\ lastOp'.id = id
    /\ HasMember(members, id)

(* C17 Cascading delete: deleteFamilyMember(id) on a stored member removes *)
(* that member and exactly the relationships from or to id, and leaves     *)
(* every other member and relationship as it was.                          *)
C17_CascadingDelete ==
    [][\A id \in CallIds :
          DeletedStored(id) =>
              /\ lastOp'.error = ""
              /\ members' = WithoutMember(members, id)
              /\ relationships' =
                    LET Other(r) == r.fromMemberId # id /\ r.toMemberId # id
                    IN  SelectSeq(relationships, Other)]_vars

\* A delete has removed a relationship to the member and kept the member's
\* neighbours and a relationship between them
C17_Witness ==
    /\ lastOp.op = "deleteFamilyMember"
    /\ lastOp.error = ""
    /\ ~HasMember(members, lastOp.id)
    /\ Len(members) = 2
    /\ currentRelationshipId = 3
    /\ Len(relationships) = 1

\* The latest call was an update or a delete of an id that was not stored
CalledUnknown ==
    /\ lastOp'.op \in {"updateFamilyMemberPosition", "updateFamilyMember",
                       "deleteFamilyMember"}
    /\ ~HasMember(members, lastOp'.id)

(* C18 Unknown member id: updateFamilyMemberPosition, updateFamilyMember    *)
(* and deleteFamilyMember called with an id no stored member has fail with *)
(* 'Family member not found' and change neither members nor relationships. *)
C18_UnknownMember ==
    [][CalledUnknown =>
          /\ lastOp'.error = "Family member not found"
          /\ members' = members
          /\ relationships' = relationships]_vars

\* A delete has failed on the id of a member deleted before, with members
\* and relationships stored
C18_Witness ==
    /\ lastOp.error = NOT_FOUND
    /\ lastOp.op = "deleteFamilyMember"
    /\ ~HasMember(members, lastOp.id)
    /\ lastOp.id < currentMemberId
    /\ members # <<>>
    /\ relationships # <<>>

\* A spouse record joins a and b, in either direction
SpouseLinked(a, b) ==
    \E i \in DOMAIN relationships :
        /\ relationships[i].type = "spouse"
        /\ \/ relationships[i].fromMemberId = a /\ relationships[i].toMemberId = b
           \/ relationships[i].fromMemberId = b /\ relationships[i].toMemberId = a

\* The members reachable from S along spouse records
RECURSIVE SpouseReach(_)
SpouseReach(S) ==
    LET more == { m \in MemberIds(members) : \E a \in S : SpouseLinked(a, m) }
    IN  IF more \subseteq S THEN S ELSE SpouseReach(S \cup more)

StrictlyAscending(g) == \A i, j \in DOMAIN g : i < j => g[i] < g[j]

(* C19 Spouse clustering: for every member, getSpouseGroup returns the      *)
(* members reachable from it along spouse records taken in either          *)
(* direction, itself included, each id once and in ascending order; every  *)
(* member of the list yields the same list, and every cluster a run laid   *)
(* out is such a list.                                                     *)
C19_SpouseClustering ==
    ~Idx.threw =>
        /\ \A seed \in MemberIds(members) :
              LET g == getSpouseGroup(Idx, seed)
              IN  /\ Range(g) = SpouseReach({seed})
                  /\ StrictlyAscending(g)
                  /\ \A m \in Range(g) : getSpouseGroup(Idx, m) = g
        /\ \A i \in DOMAIN calls :
              LET g == calls[i].parents
              IN  /\ StrictlyAscending(g)
                  /\ \A m \in Range(g) : Range(g) = SpouseReach({m})

\* A run has laid out a cluster of three members, two of which no spouse
\* record joins directly
C19_Witness ==
    /\ Completed
    /\ \E i \in DOMAIN calls :
          /\ Len(calls[i].parents) = 3
          /\ \E a, b \in Range(calls[i].parents) : a # b /\ ~SpouseLinked(a, b)

\* The cluster lies in one band, its cards one card width and one gap apart
InBand(g) ==
    /\ Range(g) \subseteq DOMAIN memberPositions
    /\ \A i, j \in DOMAIN g : memberPositions[g[i]].y = memberPositions[g[j]].y
    /\ \A i \in 1 .. Len(g) - 1 :
          memberPositions[g[i + 1]].x - memberPositions[g[i]].x
              = (CARD_WIDTH + X_SPACING) * Scale

(* C20 Cluster band: in the Position Map of a completed run, the members   *)
(* of the spouse cluster of every positioned member are all positioned,   *)
(* have the same y, and in ascending id order consecutive members' x      *)
(* differ by exactly CARD_WIDTH + X_SPACING = 296 pixels.                  *)
C20_ClusterBand ==
    Completed => \A m \in DOMAIN memberPositions : InBand(ClusterOf(m))

\* A run has positioned a cluster of several members below the top band
C20_Witness ==
    /\ Completed
    /\ \E m \in DOMAIN memberPositions :
          /\ Len(ClusterOf(m)) > 1
          /\ memberPositions[m].y > 0

(* C21 Child one band below: in the Position Map of a completed run, every *)
(* shared child of the spouse cluster of a positioned member is           *)
(* positioned with y equal to the cluster's y plus CARD_HEIGHT + Y_SPACING *)
(* = 208 pixels.                                                           *)
C21_ChildOneBandBelow ==
    Completed =>
        \A m \in DOMAIN memberPositions :
            \A c \in SharedChildren(ClusterOf(m)) :
                /\ c \in DOMAIN memberPositions
                /\ memberPositions[c].y
                       = memberPositions[m].y + (CARD_HEIGHT + Y_SPACING) * Scale

\* The cursor an invocation leaves is past every card it positioned
CursorPastOwnCards(call) ==
    \A j \in DOMAIN call.parents :
        call.x + (j - 1) * (CARD_WIDTH + X_SPACING) * Scale
               + (CARD_WIDTH + X_SPACING) * Scale <= call.nextXAfter

(* C22 Cursor advance: when an invocation of layoutUnit returns, nextX is  *)
(* at least the right edge (x + CARD_WIDTH) plus X_SPACING of every card   *)
(* the invocation positioned, the cards of a parent cluster wider than    *)
(* its children's span included.                                           *)
C22_CursorAdvance ==
    Completed => \A i \in DOMAIN calls : CursorPastOwnCards(calls[i])

\* The generation rule on an assignment mg whose parent records have type
\* parentType
GenerationRule(mg, parentType) ==
    /\ \A r \in Range(RootMembers(members, relationships, parentType)) :
          r \in DOMAIN mg /\ mg[r] = 0
    /\ \A m \in (ReachableFromRoots(parentType) \cap MemberIds(members))
                    \ Range(RootMembers(members, relationships, parentType)) :
          /\ m \in DOMAIN mg
          /\ \E i \in DOMAIN relationships :
                /\ relationships[i].type = parentType
                /\ relationships[i].toMemberId = m
                /\ relationships[i].fromMemberId \in DOMAIN mg
                /\ mg[m] = mg[relationships[i].fromMemberId] + 1

\* calculateStats has run on the snapshot; the earlier handler has run
StatsComputed == stats # NoStats
GenerationsAssigned == runs > 0

(* C23 Generation rule: after generation assignment, by calculateStats     *)
(* over parent-child records and by the earlier handler over parent        *)
(* records, every root has generation 0 and every member a root reaches    *)
(* has a generation equal to 1 plus the final generation of at least one   *)
(* of its parents, also when several roots reach it.                       *)
C23_GenerationRule ==
    /\ StatsComputed => GenerationRule(stats.memberGenerations, "parent-child")
    /\ GenerationsAssigned => GenerationRule(memberGenerations, "parent")

\* Both assignments have run on a snapshot where two roots are recorded
\* parents of one member, which calculateStats has put below them
C23_Witness ==
    /\ StatsComputed
    /\ GenerationsAssigned
    /\ \E m \in MemberIds(members) :
       \E a, b \in Range(RootMembers(members, relationships, "parent-child")) :
          /\ a # b
          /\ m \in DOMAIN stats.memberGenerations
          /\ stats.memberGenerations[m] > 0
          /\ \E i, j \in DOMAIN relationships :
                /\ relationships[i].type = "parent-child"
                /\ relationships[j].type = "parent-child"
                /\ relationships[i].fromMemberId = a /\ relationships[i].toMemberId = m
                /\ relationships[j].fromMemberId = b /\ relationships[j].toMemberId = m

\* The line drawn for a parent-child record that neither the claim's
\* condition nor the canvas routes from the midpoint
SingleParentLine(i) ==
    /\ drawn[i].type = "parent-child"
    /\ ~MidpointCase(drawn[i].toMemberId)
    /\ ~UseMidpoint(relationships, ParentsOf(members, relationships, drawn[i].toMemberId))

(* C24 Single-parent anchor: a parent-child line that is not routed from   *)
(* the midpoint runs from the parent card's bottom centre                  *)
(* (from.x + CARD_WIDTH/2, from.y + CARD_HEIGHT) to the child card's top   *)
(* centre (to.x + CARD_WIDTH/2, to.y).                                     *)
C24_SingleParentAnchor ==
    rendered =>
        \A i \in DOMAIN drawn :
            SingleParentLine(i) =>
                LET from == PositionOf(members, drawn[i].fromMemberId)
                    to == PositionOf(members, drawn[i].toMemberId)
                IN  /\ 2 * drawn[i].x1 = 2 * from.x + CARD_WIDTH * Scale
                    /\ drawn[i].y1 = from.y + CARD_HEIGHT * Scale
                    /\ 2 * drawn[i].x2 = 2 * to.x + CARD_WIDTH * Scale
                    /\ drawn[i].y2 = to.y

RelationshipTypes == { relationships[i].type : i \in DOMAIN relationships }

(* C25 Dedup across all types: in one render pass, for each relationship   *)
(* type and each unordered pair of present members at most one line is     *)
(* drawn, and when a record of that type joins the pair the line is that   *)
(* of the first such record in the list: a parent-child record A -> B      *)
(* followed by B -> A draws only A -> B.                                   *)
C25_DedupAllTypes ==
    rendered =>
        \A type \in RelationshipTypes : \A a, b \in MemberIds(members) :
            /\ Cardinality(LinesBetween(type, a, b)) <= 1
            /\ RecordsBetween(type, a, b) # {} =>
                  \E i \in LinesBetween(type, a, b) :
                      LET first == relationships[Min(RecordsBetween(type, a, b))]
                      IN  /\ drawn[i].fromMemberId = first.fromMemberId
                          /\ drawn[i].toMemberId = first.toMemberId
                          /\ drawn[i].label = (IF first.status # "active"
                                               THEN first.status ELSE "")

\* A render pass has run over a parent-child record A -> B followed by the
\* record B -> A, both members present
C25_Witness ==
    /\ rendered
    /\ Len(relationships) = 2
    /\ relationships[1].type = "parent-child"
    /\ relationships[2].type = "parent-child"
    /\ relationships[1].fromMemberId # relationships[1].toMemberId
    /\ relationships[2].fromMemberId = relationships[1].toMemberId
    /\ relationships[2].toMemberId = relationships[1].fromMemberId
    /\ WellFormedRel(relationships[1])
    /\ Len(drawn) = 1

\* The lists that hold the elements of list s in some order
Reorderings(s) ==
    { [i \in DOMAIN s |-> s[f[i]]] :
        f \in { g \in [DOMAIN s -> DOMAIN s] : \A i, j \in DOMAIN s : g[i] = g[j] => i = j } }

(* C26 Order independence of the layout: the Position Map of a completed   *)
(* run is the one the computation yields on the same members and the same  *)
(* relationships listed in any other order.                                *)
C26_OrderIndependence ==
    Completed =>
        \A ms \in Reorderings(members) : \A rels \in Reorderings(relationships) :
            LET other == ComputeLayout(ms, rels)
            IN  ~other.threw /\ other.pos = memberPositions

(* C27 One write per member: a run dispatches at most one position write   *)
(* per member id, so no two writes of one run carry the same id.           *)
C27_OneWritePerMember ==
    \A r1, r2 \in pending :
        (r1.run = r2.run /\ r1.id = r2.id) => r1 = r2

(* C28 No partial flush: position writes are dispatched only by a run      *)
(* whose computation has completed; a run whose computation throws         *)
(* dispatches no position write and leaves the stored positions as they    *)
(* were.                                                                   *)
C28_NoPartialFlush ==
    [][/\ (runs' = runs + 1 /\ threw') => (pending' = pending /\ members' = members)
       /\ \A req \in pending' \ pending : ~threw' /\ req.run = runs']_vars

\* Every run's computation has thrown after positioning a first root, no
\* write is in flight and no member has been moved
C28_Witness ==
    /\ runs = MaxRuns
    /\ threw
    /\ memberPositions # <<>>
    /\ pending = {}
    /\ members = FreshMembers(Len(members))

(* C29 Auto-align busy flag: a run that passes the guard and goes on to    *)
(* its writes has isAutoAligning true, and whenever isAutoAligning is true *)
(* it is eventually false again, whether the writes all succeed, one of    *)
(* them fails, or the layout throws.                                       *)
C29_BusyFlag ==
    /\ [][(runs' = runs + 1 /\ ~threw') => isAutoAligning']_vars
    /\ (isAutoAligning ~> ~isAutoAligning)

\* The flag is down again after a run whose write failed while a write of
\* the same run is still in flight
C29_Witness ==
    /\ runs > 0
    /\ writeFailed
    /\ ~isAutoAligning
    /\ \E req \in pending : req.run = runs

(* C30 Cursor monotonicity: during a run nextX starts at 0 and never       *)
(* decreases: no invocation of layoutUnit leaves it below the value it     *)
(* found, nor below the value the invocation that returned before it left. *)
C30_CursorMonotone ==
    runs > 0 =>
        /\ calls # <<>> => calls[1].nextXBefore = 0
        /\ \A i \in DOMAIN calls : calls[i].nextXBefore <= calls[i].nextXAfter
        /\ \A i \in 1 .. Len(calls) - 1 : calls[i].nextXAfter <= calls[i + 1].nextXBefore
        /\ calls # <<>> => calls[Len(calls)].nextXAfter <= nextX
        /\ nextX >= 0

\* A run has returned from an invocation with children whose span ends left
\* of the cursor the invocation found
C30_Witness ==
    /\ Completed
    /\ \E i \in DOMAIN calls :
          /\ Len(calls[i].childXs) > 0
          /\ calls[i].nextXBefore
                > Max(Range(calls[i].childXs)) + (CARD_WIDTH + X_SPACING) * Scale

===========================================================================
